---- MODULE Spec2Model ----
(***************************************************************************)
(* Model of circos.py: the GenBank / BLAST to Circos converter.            *)
(*                                                                         *)
(* The script is a linear pipeline (lines 131-146):                        *)
(*   parse_genbank(query) ; parse_genbank(subject) ; parse_blast_report ;  *)
(*   generate_karyotype ; generate_labels ; generate_links                 *)
(*                                                                         *)
(* Python values are modelled as follows.                                  *)
(*  - a dict (insertion ordered) is a sequence of [key, value] entries     *)
(*    with pairwise distinct keys;                                         *)
(*  - an identifier is a string; a numeric csv field is the sequence of    *)
(*    its characters, which int() and float() parse digit by digit;        *)
(*  - a float is a fixed-point number counted in 1/Scale units;            *)
(*  - an output file is [opened, lines]; a line is the tuple of the values *)
(*    the f-string joins with single spaces;                               *)
(*  - a call that may raise returns [ok |-> FALSE] when it raises.         *)
(***************************************************************************)
EXTENDS Integers, Sequences, FiniteSets, TLC

VARIABLES
    pc,             \* position of the main script
    query_gbk,      \* content of the file args.query_gbk
    subject_gbk,    \* content of the file args.subject_gbk
    blast_report,   \* content of the file args.blast_report
    query_genes, query_length,
    subject_genes, subject_length,
    blast_data,
    karyotype_file, labels_file, links_file,
    link_count,     \* local of generate_links
    row_idx,        \* position of generate_links' for loop in blast_data
    stdout          \* what print() has written

vars == <<pc, query_gbk, subject_gbk, blast_report, query_genes, query_length,
          subject_genes, subject_length, blast_data, karyotype_file,
          labels_file, links_file, link_count, row_idx, stdout>>

inputs == <<query_gbk, subject_gbk, blast_report>>

----------------------------------------------------------------------------
(* Bounds of the explored inputs *)

\* items (record headers and features) in the annotation file of SpecGenbank
MaxItems == 4
\* lines in the alignment report of SpecBlast
MaxLines == 3
\* lines in the alignment report of Spec
MaxRows == 3

----------------------------------------------------------------------------
(* Python helpers *)

\* --query_name and --subject_name
query_name == "plastome"
subject_name == "mitochondrion"

RECURSIVE SeqsUpTo(_, _)
SeqsUpTo(S, n) ==
    IF n = 0 THEN {<<>>}
    ELSE LET shorter == SeqsUpTo(S, n - 1)
         IN shorter \cup {Append(s, x) : s \in {t \in shorter : Len(t) = n - 1}, x \in S}

\* d.keys(), `k in d`, d[k] and d[k] = v of an insertion-ordered dict
dict_keys(d) == {d[i].key : i \in 1..Len(d)}

dict_contains(d, k) == k \in dict_keys(d)

dict_getitem(d, k) == d[CHOOSE i \in 1..Len(d) : d[i].key = k].value

\* a buggy variant: every assignment adds an entry, none replaces one
dict_setitem_append(d, k, v) == Append(d, [key |-> k, value |-> v])

dict_setitem(d, k, v) ==
    IF dict_contains(d, k)
    THEN [i \in 1..Len(d) |-> IF d[i].key = k THEN [key |-> k, value |-> v] ELSE d[i]]
    ELSE Append(d, [key |-> k, value |-> v])

\* qualifiers.get(key, default): qualifiers is a dict from names to lists
qualifiers_get(qualifiers, key, default) ==
    IF key \in DOMAIN qualifiers THEN qualifiers[key] ELSE default

----------------------------------------------------------------------------
(* parse_genbank *)

gene_name_of(feature) ==
    LET gene_name == qualifiers_get(feature.qualifiers, "gene", <<"unknown">>)[1]
    IN IF gene_name = "unknown"
       THEN qualifiers_get(feature.qualifiers, "locus_tag", <<"unknown">>)[1]
       ELSE gene_name

strand_of(feature) == IF feature.strand = 1 THEN "+" ELSE "-"

\* a buggy variant: the feature type is not looked at
is_coding_any(feature) == TRUE

is_coding(feature) == feature.type = "CDS"

\* the body of `for feature in record.features`
feature_step(genes, feature) ==
    IF is_coding(feature)
    THEN dict_setitem(genes, gene_name_of(feature),
                      [start |-> feature.start,
                       end |-> feature.end,
                       strand |-> strand_of(feature)])
    ELSE genes

RECURSIVE features_loop(_, _, _)
features_loop(genes, features, k) ==
    IF k > Len(features) THEN genes
    ELSE features_loop(feature_step(genes, features[k]), features, k + 1)

\* the body of `for record in SeqIO.parse(...)`
RECURSIVE records_loop(_, _, _, _)
records_loop(genes, contig_length, records, k) ==
    IF k > Len(records) THEN [ok |-> TRUE, genes |-> genes, length |-> contig_length]
    ELSE records_loop(features_loop(genes, records[k].features, 1),
                      records[k].seq_len, records, k + 1)

\* SeqIO.parse raises on a file it cannot open
parse_genbank(gbk_file) ==
    IF ~gbk_file.readable THEN [ok |-> FALSE, genes |-> <<>>, length |-> 0]
    ELSE records_loop(<<>>, 0, gbk_file.records, 1)

----------------------------------------------------------------------------
(* int() and float() on the characters of a csv field *)

DigitChars == <<"0", "1", "2", "3", "4", "5", "6", "7", "8", "9">>

IsDigit(c) == \E i \in 1..10 : DigitChars[i] = c

DigitVal(c) == (CHOOSE i \in 1..10 : DigitChars[i] = c) - 1

IsDigits(s) == \A i \in 1..Len(s) : IsDigit(s[i])

RECURSIVE DecVal(_)
DecVal(s) ==
    IF s = <<>> THEN 0
    ELSE 10 * DecVal(SubSeq(s, 1, Len(s) - 1)) + DigitVal(s[Len(s)])

HasSign(s) == s # <<>> /\ s[1] \in {"-", "+"}

Unsigned(s) == IF HasSign(s) THEN Tail(s) ELSE s

Signed(s, n) == IF HasSign(s) /\ s[1] = "-" THEN 0 - n ELSE n

\* int(str): an optional sign and one or more decimal digits, else ValueError
int(s) ==
    LET body == Unsigned(s)
    IN IF body # <<>> /\ IsDigits(body)
       THEN [ok |-> TRUE, val |-> Signed(s, DecVal(body))]
       ELSE [ok |-> FALSE, val |-> 0]

\* floats are counted in 1/Scale: three decimal places
FracDigits == 3
Scale == 1000

RECURSIVE PadRight(_, _)
PadRight(s, n) == IF Len(s) >= n THEN s ELSE PadRight(Append(s, "0"), n)

\* float(str): an optional sign, digits, and at most one point with digits on
\* at least one side, else ValueError. The value keeps the first FracDigits
\* places of the fraction (the fields of the explored reports carry no more).
float(s) ==
    LET body == Unsigned(s)
        dots == {i \in 1..Len(body) : body[i] = "."}
        dot == IF dots = {} THEN Len(body) + 1 ELSE CHOOSE i \in dots : TRUE
        whole == SubSeq(body, 1, dot - 1)
        frac == SubSeq(body, dot + 1, Len(body))
    IN IF /\ Cardinality(dots) <= 1
          /\ IsDigits(whole) /\ IsDigits(frac)
          /\ Len(whole) + Len(frac) > 0
       THEN [ok |-> TRUE,
             val |-> Signed(s, DecVal(whole) * Scale
                               + DecVal(SubSeq(PadRight(frac, FracDigits), 1, FracDigits)))]
       ELSE [ok |-> FALSE, val |-> 0]

----------------------------------------------------------------------------
(* parse_blast_report *)

\* the number of columns the loop body indexes: row[0] .. row[11]
NumColumns == 12

\* the literal of `identity >= 50`
Threshold == 50

\* a buggy variant: a strict comparison
passes_gt(identity) == identity > Threshold * Scale

passes(identity) == identity >= Threshold * Scale

\* the assignments of the loop body, row[0] .. row[11]; a missing column raises
\* IndexError and a field that does not convert raises ValueError
convert_row(row) ==
    IF Len(row) < NumColumns THEN [ok |-> FALSE]
    ELSE LET identity == float(row[3])
             alignment_length == int(row[4])
             mismatches == int(row[5])
             gap_opens == int(row[6])
             q_start == int(row[7])
             q_end == int(row[8])
             s_start == int(row[9])
             s_end == int(row[10])
             evalue == float(row[11])
             bit_score == float(row[12])
         IN IF /\ identity.ok /\ alignment_length.ok /\ mismatches.ok /\ gap_opens.ok
               /\ q_start.ok /\ q_end.ok /\ s_start.ok /\ s_end.ok
               /\ evalue.ok /\ bit_score.ok
            THEN [ok |-> TRUE, identity |-> identity.val,
                  hit |-> <<row[1], row[2], q_start.val, q_end.val, s_start.val, s_end.val>>]
            ELSE [ok |-> FALSE]

\* a buggy variant: a line that does not convert is skipped
RECURSIVE rows_loop_skip(_, _, _)
rows_loop_skip(data, rows, k) ==
    IF k > Len(rows) THEN [ok |-> TRUE, data |-> data]
    ELSE LET r == convert_row(rows[k])
         IN IF ~r.ok THEN rows_loop_skip(data, rows, k + 1)
            ELSE rows_loop_skip(IF passes(r.identity) THEN Append(data, r.hit) ELSE data,
                                rows, k + 1)

\* `for row in reader`, from row k on
RECURSIVE rows_loop(_, _, _)
rows_loop(data, rows, k) ==
    IF k > Len(rows) THEN [ok |-> TRUE, data |-> data]
    ELSE LET r == convert_row(rows[k])
         IN IF ~r.ok THEN [ok |-> FALSE, data |-> <<>>]
            ELSE rows_loop(IF passes(r.identity) THEN Append(data, r.hit) ELSE data,
                           rows, k + 1)

\* open() raises on a file it cannot open
parse_blast_report(blast_file) ==
    IF ~blast_file.readable THEN [ok |-> FALSE, data |-> <<>>]
    ELSE rows_loop(<<>>, blast_file.rows, 1)

----------------------------------------------------------------------------
(* the emitters *)

NotOpened == [opened |-> FALSE, lines |-> <<>>]

\* open(output_file, "w") followed by the writes
Written(lines) == [opened |-> TRUE, lines |-> lines]

generate_karyotype(q_length, s_length, q_name, s_name) ==
    Written(<< <<"chr", "-", q_name, q_name, 0, q_length, "green">>,
               <<"chr", "-", s_name, s_name, 0, s_length, "blue">> >>)

label_lines(genes, name) ==
    [i \in 1..Len(genes) |-> <<name, genes[i].value.start, genes[i].value.end, genes[i].key>>]

generate_labels(q_genes, s_genes, q_name, s_name) ==
    Written(label_lines(q_genes, q_name) \o label_lines(s_genes, s_name))

\* a buggy variant: the gene's end is the offset
genome_pos_end(gene, local) == gene.end + local

genome_pos(gene, local) == gene.start + local

\* a buggy variant: the first unresolved row ends the loop (break for continue)
after_skip_break(idx, data) == Len(data) + 1

\* `continue`: the loop goes on with the next row
after_skip(idx, data) == idx + 1

\* a buggy variant: a skipped row is counted too
count_after_skip_bump(count) == count + 1

\* a skipped row leaves link_count alone
count_after_skip(count) == count

\* one pass of the loop body of generate_links on row `hit`
links_step(hit, q_genes, s_genes, q_name, s_name, file, count, idx, data) ==
    IF ~dict_contains(q_genes, hit[1])
    THEN [file |-> file, count |-> count_after_skip(count), idx |-> after_skip(idx, data),
          out |-> << <<"Query gene not found", hit[1]>> >>]
    ELSE IF ~dict_contains(s_genes, hit[2])
    THEN [file |-> file, count |-> count_after_skip(count), idx |-> after_skip(idx, data),
          out |-> << <<"Subject gene not found", hit[2]>> >>]
    ELSE LET query_gene == dict_getitem(q_genes, hit[1])
             subject_gene == dict_getitem(s_genes, hit[2])
             line == <<q_name, genome_pos(query_gene, hit[3]), genome_pos(query_gene, hit[4]),
                       s_name, genome_pos(subject_gene, hit[5]), genome_pos(subject_gene, hit[6])>>
         IN [file |-> Written(Append(file.lines, line)), count |-> count + 1,
             idx |-> idx + 1, out |-> <<>>]

----------------------------------------------------------------------------
(* The explored inputs *)

\* a file that cannot be opened
Unreadable == [readable |-> FALSE, records |-> <<>>, rows |-> <<>>]

GbkFile(records) == [readable |-> TRUE, records |-> records, rows |-> <<>>]

BlastFile(rows) == [readable |-> TRUE, records |-> <<>>, rows |-> rows]

Qualifiers(gene, locus_tag) ==
    [q \in {k \in {"gene", "locus_tag"} :
               (k = "gene" /\ gene # <<>>) \/ (k = "locus_tag" /\ locus_tag # <<>>)}
       |-> IF q = "gene" THEN gene ELSE locus_tag]

Feature(type, gene, locus_tag, start, end, strand) ==
    [type |-> type, qualifiers |-> Qualifiers(gene, locus_tag),
     start |-> start, end |-> end, strand |-> strand]

\* a LOCUS line opening a record whose sequence has seq_len bases
Header(seq_len) == [item |-> "record", seq_len |-> seq_len, feature |-> <<>>]

FeatureItem(f) == [item |-> "feature", seq_len |-> 0, feature |-> <<f>>]

\* the records SeqIO.parse yields for a file listing `items`
RECURSIVE GroupRecords(_, _, _)
GroupRecords(records, items, k) ==
    IF k > Len(items) THEN records
    ELSE IF items[k].item = "record"
    THEN GroupRecords(Append(records, [seq_len |-> items[k].seq_len, features |-> <<>>]),
                      items, k + 1)
    ELSE GroupRecords([records EXCEPT ![Len(records)].features = @ \o items[k].feature],
                      items, k + 1)

SeqLens == {10000, 8000}

\* the features of SpecGenbank: every combination of qualifiers at one position,
\* each identifier at a second position, and a feature that is not coding
GenbankFeatures ==
    {Feature("CDS", g, l, 100, 400, 1) :
        g \in {<<>>, <<"unknown">>, <<"rbcL">>}, l \in {<<>>, <<"LT1">>}}
    \cup {Feature("CDS", <<"rbcL">>, <<>>, 200, 500, -1),
          Feature("CDS", <<>>, <<"LT1">>, 200, 500, -1),
          Feature("CDS", <<>>, <<>>, 200, 500, -1),
          Feature("gene", <<"rbcL">>, <<>>, 100, 400, 1)}

GenbankItems == {Header(n) : n \in SeqLens} \cup {FeatureItem(f) : f \in GenbankFeatures}

\* a file is empty or starts with a record
GenbankFiles ==
    {Unreadable, GbkFile(<<>>)}
    \cup {GbkFile(GroupRecords(<<>>, <<Header(n)>> \o rest, 1)) :
            n \in SeqLens, rest \in SeqsUpTo(GenbankItems, MaxItems - 1)}

\* one record with the given features
OneRecord(seq_len, features) == GbkFile(<< [seq_len |-> seq_len, features |-> features] >>)

\* the annotation files of Spec and SpecBlast
QueryFeatures ==
    {Feature("CDS", <<g>>, <<>>, 100, 400, 1) : g \in {"rbcL", "psbA"}}
    \cup {Feature("CDS", <<"rbcL">>, <<>>, 100, 700, -1),
          Feature("CDS", <<"rbcL">>, <<>>, 1000, 1300, 0)}

QueryFiles ==
    {Unreadable, GbkFile(<<>>), OneRecord(10000, <<>>)}
    \cup {OneRecord(10000, <<f>>) : f \in QueryFeatures}
    \cup {OneRecord(10000, <<Feature("CDS", <<"rbcL">>, <<>>, 100, 400, 1),
                             Feature("CDS", <<"psbA">>, <<>>, 1000, 1300, -1)>>)}

SubjectFiles ==
    {Unreadable,
     OneRecord(8000, <<Feature("CDS", <<"nad1">>, <<>>, 200, 500, 1)>>),
     OneRecord(8000, <<Feature("CDS", <<"nad1">>, <<>>, 200, 800, -1),
                       Feature("CDS", <<"cox1">>, <<>>, 3000, 3300, 1)>>)}

\* the characters of the numeric fields used below
F1 == <<"1">>
F5 == <<"5">>
F40 == <<"4", "0">>
F50 == <<"5", "0">>
F60 == <<"6", "0">>
F80 == <<"8", "0">>
F50p0 == <<"5", "0", ".", "0">>
F49p999 == <<"4", "9", ".", "9", "9", "9">>
F0p001 == <<"0", ".", "0", "0", "1">>
F95p5 == <<"9", "5", ".", "5">>
Fbad == <<"n", "/", "a">>

\* a report line: query_id subject_id identity length mismatches gaps
\* q_start q_end s_start s_end evalue bit_score
Line(q, s, identity, qs, qe, ss, se, bits) ==
    <<q, s, identity, F50, F1, F1, qs, qe, ss, se, F0p001, bits>>

\* the lines of Spec: identifiers that resolve or not, two sets of coordinates
PipelineLines ==
    {Line(q, s, F80, F1, F50, F1, F40, F95p5) : q \in {"rbcL", "psbA"}, s \in {"nad1", "cox1"}}
    \cup {Line("rbcL", "nad1", F50p0, F5, F60, F5, F50, F95p5),
          Line("rbcL", "nad1", F80, F1, Fbad, F1, F40, F95p5)}

PipelineReports == {BlastFile(rows) : rows \in SeqsUpTo(PipelineLines, MaxRows)}

\* the lines of SpecBlast: identities around the threshold, and malformed lines
GoodLines ==
    {Line("rbcL", "nad1", identity, qs, F50, F1, F40, F95p5) :
        identity \in {F50p0, F49p999, F80, F5}, qs \in {F1, F5}}

MalformedLines ==
    {<<>>,
     SubSeq(Line("rbcL", "nad1", F80, F1, F50, F1, F40, F95p5), 1, NumColumns - 1),
     <<"rbcL", "nad1">>,
     Line("rbcL", "nad1", Fbad, F1, F50, F1, F40, F95p5),
     Line("rbcL", "nad1", F80, F50p0, F50, F1, F40, F95p5),
     Line("rbcL", "nad1", F5, F1, F50, F1, Fbad, F95p5),
     Line("rbcL", "nad1", F5, F1, F50, F1, F40, Fbad)}

BlastLines == GoodLines \cup MalformedLines

BlastReports == {Unreadable} \cup {BlastFile(rows) : rows \in SeqsUpTo(BlastLines, MaxLines)}

----------------------------------------------------------------------------
(* The main script *)

\* a buggy variant: the karyotype is written before the report is read
after_step_early_emit(step) ==
    CASE step = "parse_query" -> "parse_subject"
      [] step = "parse_subject" -> "karyotype"
      [] step = "karyotype" -> "parse_blast"
      [] step = "parse_blast" -> "labels"
      [] step = "labels" -> "links"
      [] step = "links" -> "done"

\* the order of the calls of the main script
after_step(step) ==
    CASE step = "parse_query" -> "parse_subject"
      [] step = "parse_subject" -> "parse_blast"
      [] step = "parse_blast" -> "karyotype"
      [] step = "karyotype" -> "labels"
      [] step = "labels" -> "links"
      [] step = "links" -> "done"

\* the state before the first call: nothing assigned, no file opened
Start ==
    /\ pc = "parse_query"
    /\ query_genes = <<>> /\ query_length = 0
    /\ subject_genes = <<>> /\ subject_length = 0
    /\ blast_data = <<>>
    /\ karyotype_file = NotOpened /\ labels_file = NotOpened /\ links_file = NotOpened
    /\ link_count = 0 /\ row_idx = 0
    /\ stdout = <<>>

Init ==
    /\ query_gbk \in QueryFiles
    /\ subject_gbk \in SubjectFiles
    /\ blast_report \in PipelineReports
    /\ Start

InitGenbank ==
    /\ query_gbk \in GenbankFiles
    /\ subject_gbk = OneRecord(8000, <<Feature("CDS", <<"rbcL">>, <<>>, 200, 500, 1)>>)
    /\ blast_report = BlastFile(<<Line("rbcL", "rbcL", F80, F1, F50, F1, F40, F95p5)>>)
    /\ Start

InitBlast ==
    /\ query_gbk = OneRecord(10000, <<Feature("CDS", <<"rbcL">>, <<>>, 100, 400, 1)>>)
    /\ subject_gbk = OneRecord(8000, <<Feature("CDS", <<"nad1">>, <<>>, 200, 500, 1)>>)
    /\ blast_report \in BlastReports
    /\ Start

\* an uncaught exception ends the process
Abort == pc' = "aborted"

\* query_genes, query_length = parse_genbank(args.query_gbk)
ParseQuery ==
    /\ pc = "parse_query"
    /\ LET r == parse_genbank(query_gbk)
       IN IF r.ok
          THEN /\ query_genes' = r.genes
               /\ query_length' = r.length
               /\ pc' = after_step("parse_query")
          ELSE Abort /\ UNCHANGED <<query_genes, query_length>>
    /\ UNCHANGED <<inputs, subject_genes, subject_length, blast_data, karyotype_file,
                   labels_file, links_file, link_count, row_idx, stdout>>

\* subject_genes, subject_length = parse_genbank(args.subject_gbk), and the two prints
ParseSubject ==
    /\ pc = "parse_subject"
    /\ LET r == parse_genbank(subject_gbk)
       IN IF r.ok
          THEN /\ subject_genes' = r.genes
               /\ subject_length' = r.length
               /\ stdout' = stdout \o << <<"Parsed genes from query", Len(query_genes)>>,
                                         <<"Parsed genes from subject", Len(r.genes)>> >>
               /\ pc' = after_step("parse_subject")
          ELSE Abort /\ UNCHANGED <<subject_genes, subject_length, stdout>>
    /\ UNCHANGED <<inputs, query_genes, query_length, blast_data, karyotype_file,
                   labels_file, links_file, link_count, row_idx>>

\* blast_data = parse_blast_report(args.blast_report), and the print
ParseBlast ==
    /\ pc = "parse_blast"
    /\ LET r == parse_blast_report(blast_report)
       IN IF r.ok
          THEN /\ blast_data' = r.data
               /\ stdout' = Append(stdout, <<"Parsed alignments", Len(r.data)>>)
               /\ pc' = after_step("parse_blast")
          ELSE Abort /\ UNCHANGED <<blast_data, stdout>>
    /\ UNCHANGED <<inputs, query_genes, query_length, subject_genes, subject_length,
                   karyotype_file, labels_file, links_file, link_count, row_idx>>

GenerateKaryotype ==
    /\ pc = "karyotype"
    /\ karyotype_file' = generate_karyotype(query_length, subject_length,
                                            query_name, subject_name)
    /\ pc' = after_step("karyotype")
    /\ UNCHANGED <<inputs, query_genes, query_length, subject_genes, subject_length,
                   blast_data, labels_file, links_file, link_count, row_idx, stdout>>

GenerateLabels ==
    /\ pc = "labels"
    /\ labels_file' = generate_labels(query_genes, subject_genes, query_name, subject_name)
    /\ pc' = after_step("labels")
    /\ UNCHANGED <<inputs, query_genes, query_length, subject_genes, subject_length,
                   blast_data, karyotype_file, links_file, link_count, row_idx, stdout>>

\* generate_links up to the loop: the file is opened and link_count set to 0
LinksOpen ==
    /\ pc = "links"
    /\ links_file' = Written(<<>>)
    /\ link_count' = 0
    /\ row_idx' = 1
    /\ pc' = "links_loop"
    /\ UNCHANGED <<inputs, query_genes, query_length, subject_genes, subject_length,
                   blast_data, karyotype_file, labels_file, stdout>>

\* one pass of the loop of generate_links
LinksRow ==
    /\ pc = "links_loop"
    /\ row_idx <= Len(blast_data)
    /\ LET r == links_step(blast_data[row_idx], query_genes, subject_genes,
                           query_name, subject_name, links_file, link_count,
                           row_idx, blast_data)
       IN /\ links_file' = r.file
          /\ link_count' = r.count
          /\ row_idx' = r.idx
          /\ stdout' = stdout \o r.out
    /\ UNCHANGED <<pc, inputs, query_genes, query_length, subject_genes, subject_length,
                   blast_data, karyotype_file, labels_file>>

\* the loop is over: the count is printed, the file closed, and the main script
\* prints its summary
LinksClose ==
    /\ pc = "links_loop"
    /\ row_idx > Len(blast_data)
    /\ stdout' = stdout \o << <<"Generated links", link_count>>,
                              <<"Circos input files generated successfully!", 0>> >>
    /\ pc' = after_step("links")
    /\ UNCHANGED <<inputs, query_genes, query_length, subject_genes, subject_length,
                   blast_data, karyotype_file, labels_file, links_file, link_count, row_idx>>

Next ==
    \/ ParseQuery
    \/ ParseSubject
    \/ ParseBlast
    \/ GenerateKaryotype
    \/ GenerateLabels
    \/ LinksOpen
    \/ LinksRow
    \/ LinksClose

\* the pipeline on small annotation files and reports whose rows resolve or not
Spec == Init /\ [][Next]_vars

\* the pipeline on annotation files of every shape
SpecGenbank == InitGenbank /\ [][Next]_vars

\* the pipeline on reports with identities around the threshold and malformed lines
SpecBlast == InitBlast /\ [][Next]_vars

----------------------------------------------------------------------------
(* Properties *)

Rank(p) ==
    CASE p = "parse_query" -> 1
      [] p = "parse_subject" -> 2
      [] p = "parse_blast" -> 3
      [] p = "karyotype" -> 4
      [] p = "labels" -> 5
      [] p = "links" -> 6
      [] p = "links_loop" -> 7
      [] p = "done" -> 8
      [] p = "aborted" -> 0

\* parse_genbank has returned for the query file
QueryParsed == query_gbk.readable /\ pc # "parse_query"

\* parse_blast_report has returned
BlastParsed == Rank(pc) > Rank("parse_blast")

RECURSIVE Flatten(_, _)
Flatten(records, k) ==
    IF k > Len(records) THEN <<>>
    ELSE records[k].features \o Flatten(records, k + 1)

IsCDS(f) == f.type = "CDS"

\* the coding features of a file, in file order
CodingFeatures(file) == SelectSeq(Flatten(file.records, 1), IsCDS)

\* C1: the genome length parse_genbank returns is the sequence length of the
\* first record of the file, whatever the later records' lengths
C1_FirstRecordLength ==
    (QueryParsed /\ query_gbk.records # <<>>)
        => query_length = query_gbk.records[1].seq_len

\* the identifier C6 describes: gene when present, else locus_tag, else "unknown"
ClaimedId(f) ==
    IF "gene" \in DOMAIN f.qualifiers THEN f.qualifiers["gene"][1]
    ELSE IF "locus_tag" \in DOMAIN f.qualifiers THEN f.qualifiers["locus_tag"][1]
    ELSE "unknown"

\* C6: every coding feature is stored under the value of its gene qualifier
\* when it has one (whatever the value), else under its locus_tag, else under
\* "unknown": the keys of the mapping are exactly those identifiers
C6_GeneQualifierFirst ==
    QueryParsed =>
        dict_keys(query_genes)
            = {ClaimedId(CodingFeatures(query_gbk)[i]) :
                   i \in 1..Len(CodingFeatures(query_gbk))}

\* the positions, in file order, of the coding features resolving to id
FeaturesOf(file, id) ==
    {i \in 1..Len(CodingFeatures(file)) : gene_name_of(CodingFeatures(file)[i]) = id}

LastFeatureOf(file, id) ==
    CodingFeatures(file)[CHOOSE i \in FeaturesOf(file, id) :
                            \A j \in FeaturesOf(file, id) : j <= i]

DuplicatedIds(file) ==
    {id \in {"rbcL", "LT1", "unknown", "psbA", "nad1", "cox1"} :
        Cardinality(FeaturesOf(file, id)) >= 2}

EntriesOf(genes, id) == {i \in 1..Len(genes) : genes[i].key = id}

LabelsOf(name, id) ==
    {i \in 1..Len(labels_file.lines) :
        labels_file.lines[i][1] = name /\ labels_file.lines[i][4] = id}

\* C5: an identifier that two or more coding features of the query file resolve
\* to has exactly one entry in the mapping, with the start and end of the last
\* such feature of the file, and exactly one line among the query genome's
\* lines of the labels file, with those coordinates
C5_LastWriteWins ==
    QueryParsed =>
        \A id \in DuplicatedIds(query_gbk) :
            LET last == LastFeatureOf(query_gbk, id)
            IN /\ Cardinality(EntriesOf(query_genes, id)) = 1
               /\ dict_getitem(query_genes, id).start = last.start
               /\ dict_getitem(query_genes, id).end = last.end
               /\ labels_file.opened =>
                    /\ Cardinality(LabelsOf(query_name, id)) = 1
                    /\ \A i \in LabelsOf(query_name, id) :
                          labels_file.lines[i] = <<query_name, last.start, last.end, id>>

\* two features of different records share an identifier and differ in position,
\* and the labels file is written
C5_Witness ==
    /\ pc = "done"
    /\ Len(query_gbk.records) = 2
    /\ Len(query_gbk.records[1].features) = 1
    /\ Len(query_gbk.records[2].features) = 1
    /\ query_gbk.records[1].features[1].start = 100
    /\ query_gbk.records[2].features[1].start = 200
    /\ "rbcL" \in DuplicatedIds(query_gbk)
    /\ labels_file.lines = << <<query_name, 200, 500, "rbcL">>,
                              <<subject_name, 200, 500, "rbcL">> >>

NoCoding(file) == CodingFeatures(file) = <<>>

\* C9 as stated: a readable file with no record, or with no coding feature,
\* raises no error and gives an empty mapping and genome length 0
C9_EmptyGivesZero ==
    (QueryParsed /\ NoCoding(query_gbk))
        => (pc # "aborted" /\ query_genes = <<>> /\ query_length = 0)

\* C9 amended: a readable file with no record, or with no coding feature,
\* raises no error and gives an empty mapping; the genome length is 0 when the
\* file has no record and otherwise the sequence length taken from its records
C9_EmptyMapping ==
    (QueryParsed /\ NoCoding(query_gbk))
        => /\ pc # "aborted"
           /\ query_genes = <<>>
           /\ query_gbk.records = <<>> => query_length = 0
           /\ query_gbk.records # <<>>
                => query_length = query_gbk.records[Len(query_gbk.records)].seq_len

\* a file whose record holds features, none of them coding, has been parsed
C9_Witness ==
    /\ QueryParsed
    /\ NoCoding(query_gbk)
    /\ Len(query_gbk.records) = 1
    /\ Len(query_gbk.records[1].features) = 2
    /\ query_genes = <<>>
    /\ query_length = 10000
    /\ pc = "done"

\* the columns int() converts and the columns float() converts (1-based)
IntColumns == 4..10
FloatColumns == {3, 11, 12}

\* a line with fewer than 12 fields, or with a numeric field that does not parse
Malformed(row) ==
    \/ Len(row) < 12
    \/ \E j \in IntColumns : ~int(row[j]).ok
    \/ \E j \in FloatColumns : ~float(row[j]).ok

WellFormed(report) ==
    report.readable /\ \A k \in 1..Len(report.rows) : ~Malformed(report.rows[k])

AtLeastFifty(row) == float(row[3]).val >= 50 * Scale

\* the six values kept of a line
HitOf(row) ==
    <<row[1], row[2], int(row[7]).val, int(row[8]).val, int(row[9]).val, int(row[10]).val>>

KeptRows(report) == SelectSeq(report.rows, AtLeastFifty)

\* C4: on a well-formed report parse_blast_report returns, and what it returns
\* is the rows of identity >= 50.0, each once, in file order
C4_FilterKeepsOrder ==
    (WellFormed(blast_report) /\ Rank(pc) \notin {1, 2, 3})
        => /\ BlastParsed
           /\ blast_data = [k \in 1..Len(KeptRows(blast_report)) |->
                               HitOf(KeptRows(blast_report)[k])]

\* a report holding a row of identity 49.999 between two equal rows of identity
\* 50.0 has been filtered: both rows of 50.0 are kept, the other is dropped
C4_Witness ==
    /\ BlastParsed
    /\ Len(blast_report.rows) = 3
    /\ blast_report.rows[1][3] = F50p0
    /\ blast_report.rows[2][3] = F49p999
    /\ blast_report.rows[3] = blast_report.rows[1]
    /\ blast_data = <<HitOf(blast_report.rows[1]), HitOf(blast_report.rows[1])>>

\* C7: a report with a malformed line, wherever it is and whatever its
\* identity, aborts the run: no list of rows is returned, the links file is
\* never opened and nothing is printed about the report
C7_MalformedAborts ==
    (blast_report.readable /\ ~WellFormed(blast_report) /\ Rank(pc) \notin {1, 2, 3})
        => /\ pc = "aborted"
           /\ blast_data = <<>>
           /\ links_file = NotOpened
           /\ Len(stdout) = 2

\* the run has aborted on a report whose third line is malformed and whose
\* first two lines pass the filter
C7_Witness ==
    /\ pc = "aborted"
    /\ Len(blast_report.rows) = 3
    /\ ~Malformed(blast_report.rows[1]) /\ AtLeastFifty(blast_report.rows[1])
    /\ ~Malformed(blast_report.rows[2]) /\ AtLeastFifty(blast_report.rows[2])
    /\ Len(blast_report.rows[3]) = 12
    /\ blast_report.rows[3][3] = F5
    /\ Malformed(blast_report.rows[3])

\* the row the loop of generate_links is at
AtRow == pc = "links_loop" /\ row_idx <= Len(blast_data)

Resolves(hit) ==
    /\ \E i \in 1..Len(query_genes) : query_genes[i].key = hit[1]
    /\ \E i \in 1..Len(subject_genes) : subject_genes[i].key = hit[2]

StartOf(genes, id) == (CHOOSE e \in {genes[i] : i \in 1..Len(genes)} : e.key = id).value.start

\* the line C3 describes for a row that resolves
LinkOf(hit) ==
    <<query_name, StartOf(query_genes, hit[1]) + hit[3], StartOf(query_genes, hit[1]) + hit[4],
      subject_name, StartOf(subject_genes, hit[2]) + hit[5],
      StartOf(subject_genes, hit[2]) + hit[6]>>

\* the printed link count
Reported(n) == \E i \in 1..Len(stdout) : stdout[i] = <<"Generated links", n>>

ResolvedRows == SelectSeq(blast_data, Resolves)

\* what a pass of the loop on a row that does not resolve leaves alone
C2_SkipStep ==
    (AtRow /\ ~Resolves(blast_data[row_idx]))
        => /\ links_file' = links_file
           /\ link_count' = link_count
           /\ pc' = "links_loop"
           /\ row_idx' = row_idx + 1

\* C2: a row whose query_id or subject_id is not in its mapping writes no
\* line, is not counted, does not abort the run and hands over to the next
\* row; every row is visited and the printed count is the number of rows that
\* resolve
C2_UnresolvedSkipped ==
    /\ [][C2_SkipStep]_vars
    /\ [](pc = "done" => (row_idx = Len(blast_data) + 1 /\ Reported(Len(ResolvedRows))))

\* the run is over on three rows: the query of the first and the subject of the
\* third are unknown, the second resolves and is the only link
C2_Witness ==
    /\ pc = "done"
    /\ Len(blast_data) = 3
    /\ \A i \in 1..Len(query_genes) : query_genes[i].key # blast_data[1][1]
    /\ Resolves(blast_data[2])
    /\ \E i \in 1..Len(query_genes) : query_genes[i].key = blast_data[3][1]
    /\ \A i \in 1..Len(subject_genes) : subject_genes[i].key # blast_data[3][2]
    /\ Len(links_file.lines) = 1
    /\ Reported(1)

\* what a pass of the loop on a row that resolves writes
C3_LinkStep ==
    (AtRow /\ Resolves(blast_data[row_idx]))
        => links_file'.lines = Append(links_file.lines, LinkOf(blast_data[row_idx]))

\* C3: a row that resolves appends the line whose coordinates are the start of
\* the gene stored under the row's identifier plus the row's local coordinates;
\* the gene's end and strand play no part
C3_AbsoluteCoordinates == [][C3_LinkStep]_vars

\* the link 101-150 / 201-240 has been written from genes that end at 700 and
\* 800 on the reverse strand
C3_Witness ==
    /\ pc = "done"
    /\ links_file.lines = << <<query_name, 101, 150, subject_name, 201, 240>> >>
    /\ Len(query_genes) = 1
    /\ query_genes[1].value = [start |-> 100, end |-> 700, strand |-> "-"]
    /\ subject_genes[1].value = [start |-> 200, end |-> 800, strand |-> "-"]

\* the lines of the rows among the first n that resolve, in row order
LinesOfFirst(n) ==
    LET rows == SelectSeq(SubSeq(blast_data, 1, n), Resolves)
    IN [k \in 1..Len(rows) |-> LinkOf(rows[k])]

\* C8: while generate_links runs, the count equals the number of lines written,
\* which are the lines of the rows visited so far that resolve, in row order;
\* at the end the file holds one line per resolving row and the printed count
\* is the number of lines
C8_CountMatchesLines ==
    /\ pc = "links_loop"
        => /\ link_count = Len(links_file.lines)
           /\ links_file.lines = LinesOfFirst(row_idx - 1)
    /\ pc = "done"
        => /\ links_file.lines = LinesOfFirst(Len(blast_data))
           /\ Reported(Len(links_file.lines))

\* the run is over with two links written from three rows, the second skipped
C8_Witness ==
    /\ pc = "done"
    /\ Len(blast_data) = 3
    /\ Resolves(blast_data[1]) /\ ~Resolves(blast_data[2]) /\ Resolves(blast_data[3])
    /\ blast_data[1] # blast_data[3]
    /\ Len(links_file.lines) = 2
    /\ Reported(2)

\* a step moves to the next position of the fixed order, or aborts while parsing
C10_StepOrder ==
    \/ pc' = pc
    \/ pc' = "aborted" /\ Rank(pc) \in {1, 2, 3}
    \/ Rank(pc') = Rank(pc) + 1

\* what the emitters leave alone
C10_EmittersReadOnly ==
    Rank(pc) >= Rank("karyotype")
        => UNCHANGED <<query_genes, query_length, subject_genes, subject_length, blast_data>>

\* an output file is opened only by its own step
C10_NoOutputBeforeParsing ==
    /\ karyotype_file.opened => Rank(pc) > Rank("karyotype")
    /\ labels_file.opened => Rank(pc) > Rank("labels")
    /\ links_file.opened => Rank(pc) > Rank("links")
    /\ pc = "aborted"
         => (karyotype_file = NotOpened /\ labels_file = NotOpened /\ links_file = NotOpened)

\* C10: the steps run in the order parse query, parse subject, parse report,
\* karyotype, labels, links; a run aborts only in a parsing step; no output file
\* is opened before the three parsing steps are over, so after an abort none
\* is; and the emitters leave the mappings and the filtered rows alone
C10_FixedOrder ==
    /\ [][C10_StepOrder /\ C10_EmittersReadOnly]_vars
    /\ []C10_NoOutputBeforeParsing

\* the run has aborted on the report after both annotation files were parsed
C10_Witness ==
    /\ pc = "aborted"
    /\ Len(stdout) = 2
    /\ query_genes # <<>>
    /\ subject_genes # <<>>
    /\ blast_report.readable
    /\ karyotype_file = NotOpened

====
